---- MODULE Spec2Model ----
(***************************************************************************)
(* Behavioural model of the notification ("toast") lifecycle of            *)
(* packages/components/notification.                                       *)
(*                                                                         *)
(* The lifecycle is the one of src/notification.vue: visible, the          *)
(* auto-close timeouts made by startTimer (one useTimeoutFn per call, the  *)
(* variable `stop` keeps the handle of the latest one only), clearTimer,   *)
(* close, onKeydown and the onMounted hook with its progress interval.     *)
(* notification.vue never reads props.timerControls.                       *)
(*                                                                         *)
(* Virtual time advances in steps of Step milliseconds (action Tick); a    *)
(* timeout fires in the step in which its delay has elapsed, and every     *)
(* DOM/keyboard event is one atomic handler run between two steps, which   *)
(* is the single-threaded event loop of the browser.                       *)
(*                                                                         *)
(* The action button is the one makeActionButton of src/composables.ts     *)
(* builds (and the execute wrapper of unnamed/part_002); the action        *)
(* registry is useActions of src/composables.ts, next to the template of   *)
(* notification.vue, which renders props.actions as they are.              *)
(*                                                                         *)
(* The composables useTimer and useProgressBar of src/composables.ts, which*)
(* the notification.vue of src does not call, are modelled on their own:   *)
(* a host calls initialize, pauseOrReset, resumeOrRestart and cleanup in   *)
(* any order while virtual time advances in steps of TimerStep.            *)
(***************************************************************************)
EXTENDS Integers, Sequences, FiniteSets, TLC

\* setInterval period of the progress countdown (notification.vue:153-155).
ProgressTickMs == 100

\* Milliseconds of virtual time per Tick.
Step == ProgressTickMs \div 2

\* Largest positive duration, in steps.
MaxDurationSteps == 3

\* Virtual time explored after mount, in steps.
MaxSteps == 5

\* Activations of the action explored in one behaviour.
MaxClicks == 2

\* Pending timeouts whose handle has been overwritten that are kept apart.
MaxOrphans == 2

\* Host changes of props.duration explored in one behaviour.
MaxPropChanges == 1

Durations == {-Step, 0} \cup {k * Step : k \in 2..MaxDurationSteps}

TimerControls == {"pause-resume", "reset-restart"}

\* EVENT_CODE.delete, EVENT_CODE.backspace, EVENT_CODE.esc and one other key.
EventCodes == {"Delete", "Backspace", "Escape", "Enter"}

VARIABLES
    duration,         \* props.duration (ms)
    timerControls,    \* props.timerControls
    showProgressBar,  \* props.showProgressBar
    phase,            \* "setup" before onMounted has run, then "mounted"
    visible,          \* visible.value
    remaining,        \* remaining.value
    stop,             \* the `stop` handle: the timeout of the latest startTimer
    orphans,          \* delays left of pending timeouts no handle refers to
    interval,         \* the progress setInterval
    action,           \* the action descriptor of props.actions, or NoAction
    disabled,         \* button.props.disabled of the rendered action
    pending,          \* activations suspended at the await of a pending promise
    microtasks,       \* activations suspended at the await of a settled value
    disableAfterExecute, \* the descriptor's property of that name
    now,              \* steps of virtual time since mount
    lastInput,        \* the last event other than the passage of time
    quietMs,          \* virtual time since lastInput
    openAtInput,      \* visible right after lastInput was handled
    paused,           \* the last timer event was a pause (mouse-enter, delete)
    hist,             \* "quiet" | "hover" | "other": the events so far
    unpausedMs,       \* virtual time spent outside a hover, while hist # "other"
    closedBy,         \* what first turned visible from true to false
    everPositive,     \* duration has been > 0 at some moment
    propChanges,      \* host changes of props.duration so far
    burstClicks,      \* clicks on the button since the last other event or tick
    burstCalls,       \* calls of execute made by these clicks
    executeCalls,     \* calls of the action's execute so far
    lastOutcome,      \* how execute ended in the last click or settlement
    propsActions,     \* props.actions as the host passed it: a list of descriptors
    renderer,         \* what turns props.actions into buttons
    computed,         \* the rendered list has been computed
    rendered,         \* the rendered actions, in render order
    mustShow,         \* the actions container is rendered
    warned,           \* labels debugWarn was called with, in call order
    executed,         \* positions in props.actions whose execute has been called
    buttonOverride,   \* the click-handler key of the descriptors' `button`, or "none"
    callerInvoked,    \* positions whose button's own click handler has been called
    pairActions,      \* the descriptors of two rendered actions, by name
    pairButtons,      \* their buttons: props.disabled, suspended activations, calls
    replacedPending,  \* suspended activations of buttons a recomputation replaced
    recomputes,       \* evaluations of the computed after the first
    onCloseCalls,     \* calls of props.onClose so far
    timerImpl,        \* which useTimer of composables.ts is in use
    intervalFn,       \* useTimer's `interval`: the useIntervalFn handle
    timeout,          \* useTimer's `timeout`: the useTimeoutFn handle
    animation,        \* useProgressBar's `animation`
    progressBarRef,   \* the progress bar's element exists
    endCalls,         \* calls of useTimer's onEnd so far
    threw,            \* the last operation threw
    initialized,      \* useTimer's initialize() has been called
    lastOp,           \* the last operation the host called
    sinceOp,          \* virtual time since lastOp
    running,          \* the host has started or resumed the countdown last
    ranMs,            \* virtual time spent while `running`
    durationChanged,  \* the host has changed duration after setup
    cyclesOnly,       \* the host has called initialize(), then only pauses of
                      \* the running countdown, each followed by a resume
    ops,              \* operations called so far
    clock             \* steps of virtual time since setup

progVars == <<duration, timerControls, showProgressBar, phase, visible,
              remaining, stop, orphans, interval>>
obsVars == <<now, lastInput, quietMs, openAtInput, paused, hist, unpausedMs,
             closedBy, everPositive, propChanges, burstClicks, burstCalls>>
btnVars == <<action, disabled, pending, microtasks, disableAfterExecute,
             executeCalls, lastOutcome>>
regVars == <<propsActions, renderer, computed, rendered, mustShow, warned,
             executed, buttonOverride, callerInvoked>>
pairVars == <<pairActions, pairButtons, replacedPending, recomputes>>
hookVars == <<onCloseCalls>>
tmrVars == <<timerImpl, intervalFn, timeout, animation, progressBarRef,
             endCalls, threw, initialized, lastOp, sinceOp, running, ranMs,
             durationChanged, cyclesOnly, ops, clock>>
vars == <<progVars, obsVars, btnVars, regVars, pairVars, hookVars, tmrVars>>

----------------------------------------------------------------------------
(* useTimeoutFn and the handle `stop`                                      *)

\* let stop: (() => void) | undefined = undefined
StopUndefined == [defined |-> FALSE, pending |-> FALSE, left |-> 0]

\* useTimeoutFn(cb, ms): immediate start, one setTimeout of ms milliseconds.
useTimeoutFn(ms) == [defined |-> TRUE, pending |-> TRUE, left |-> ms]

\* The stop() a useTimeoutFn returns: clearTimeout of its own timeout.
StopTimeout(t) == [t EXCEPT !.pending = FALSE, !.left = 0]

\* Mutant: the callback never closes.
TimeoutCallback_Noop(v) == v

\* Mutant: the callback toggles the visibility.
TimeoutCallback_Toggle(v) == ~v

\* The callback startTimer gives to useTimeoutFn: if (visible.value) close().
TimeoutCallback(v) == IF v THEN FALSE ELSE v

PendingTimeouts == Len(orphans) + (IF stop.pending THEN 1 ELSE 0)

\* Mutant: startTimer without its `props.duration > 0` guard.
startTimer_NoDurationGuard ==
    /\ stop' = useTimeoutFn(duration)
    /\ orphans' = IF stop.pending /\ Len(orphans) < MaxOrphans
                  THEN Append(orphans, stop.left)
                  ELSE orphans

\* startTimer(): when duration > 0 a NEW timeout is made and `stop` is
\* overwritten; the timeout `stop` referred to stays scheduled.
startTimer ==
    IF duration > 0
    THEN /\ stop' = useTimeoutFn(duration)
         /\ orphans' = IF stop.pending THEN Append(orphans, stop.left)
                       ELSE orphans
    ELSE UNCHANGED <<stop, orphans>>

\* Mutant: clearTimer that stops nothing.
clearTimer_Noop == UNCHANGED <<stop, orphans>>

\* clearTimer(): stop?.()
clearTimer ==
    /\ stop' = IF stop.defined THEN StopTimeout(stop) ELSE stop
    /\ UNCHANGED orphans

\* close(): visible.value = false
close == visible' = FALSE

\* startTimer is enabled in the model while the orphans fit the bound.
CanStart == duration > 0 /\ stop.pending => Len(orphans) < MaxOrphans

----------------------------------------------------------------------------
(* The action descriptor and its rendered button                           *)

\* props.actions is undefined.
NoAction == [impl |-> "none", keepOpen |-> "false", disableWhilePending |-> "absent"]

\* keepOpen of a descriptor; an absent or undefined keepOpen is read with the
\* default `keepOpen = false` of the destructuring.
KeepOpenValues == {"false", "true", "until-resolved"}

\* The rendered actions of makeActionButton (composables.ts) and of the
\* inline execute wrapper of useActions (unnamed/part_002).
ActionConfigs ==
    [impl : {"makeActionButton"}, keepOpen : KeepOpenValues,
     disableWhilePending : {"absent", "true", "false"}]
    \cup
    [impl : {"wrapper"}, keepOpen : KeepOpenValues,
     disableWhilePending : {"absent"}]

\* disableWhilePending = keepOpen === 'until-resolved' by default.
disableWhilePending(a) ==
    IF a.disableWhilePending = "absent" THEN a.keepOpen = "until-resolved"
    ELSE a.disableWhilePending = "true"

\* ReactiveActionButton when disableWhilePending, else NoopActionButton.
disableIfNeeded(a, d) == IF disableWhilePending(a) THEN TRUE ELSE d

enableIfNeeded(a, d) == IF disableWhilePending(a) THEN FALSE ELSE d

\* What one call of execute() does: it returns a value that is no promise,
\* throws, or returns a promise that settles later.
ExecuteOutcomes == {"returns", "throws", "promise"}

Settlements == {"resolved", "rejected"}

\* disableAfterExecute of a descriptor: not given, true or false.
DisableAfterExecuteValues == {"absent", "true", "false"}

----------------------------------------------------------------------------
(* Observers: history of one behaviour, read by the properties only        *)

\* The inputs after which the quiet time is measured.
TimedInputs == {"mount", "mouseleave"}

\* A click that reached the handler, and one the disabled button swallowed.
ClickInputs == {"click", "clickIgnored"}

Observe(input, open) ==
    /\ lastInput' = input
    /\ quietMs' = 0
    /\ propChanges' = propChanges + (IF input = "setDuration" THEN 1 ELSE 0)
    /\ openAtInput' = open
    /\ closedBy' = IF visible /\ ~open
                   THEN (IF input \in {"click", "settle"} THEN "action"
                         ELSE input)
                   ELSE closedBy
    /\ everPositive' = (everPositive \/ duration' > 0)
    /\ now' = now
    /\ burstClicks' = IF input \in ClickInputs THEN burstClicks + 1 ELSE 0
    /\ burstCalls' = IF input = "click" THEN burstCalls + 1
                     ELSE IF input \in ClickInputs THEN burstCalls ELSE 0

\* A mouse-enter while outside or a mouse-leave while inside keeps a history
\* of hovers a history of hovers; every other input ends it.
HoverStep(enter) ==
    /\ hist' = IF hist # "other" /\ paused # enter THEN "hover" ELSE "other"
    /\ paused' = enter
    /\ unpausedMs' = IF hist' = "other" THEN 0 ELSE unpausedMs

OtherStep(p) ==
    /\ hist' = "other"
    /\ paused' = p
    /\ unpausedMs' = 0

----------------------------------------------------------------------------
(* The component                                                           *)

InitState(actions) ==
    /\ duration \in Durations
    /\ timerControls \in TimerControls
    /\ showProgressBar \in BOOLEAN
    /\ phase = "setup"
    /\ visible = FALSE
    /\ remaining = duration
    /\ stop = StopUndefined
    /\ orphans = <<>>
    /\ interval = [on |-> FALSE, left |-> 0]
    /\ now = 0
    /\ lastInput = "none"
    /\ quietMs = 0
    /\ openAtInput = FALSE
    /\ paused = FALSE
    /\ hist = "quiet"
    /\ unpausedMs = 0
    /\ closedBy = "none"
    /\ everPositive = (duration > 0)
    /\ propChanges = 0
    /\ action \in actions
    /\ disabled = FALSE
    /\ pending = 0
    /\ microtasks = 0
    /\ disableAfterExecute \in DisableAfterExecuteValues
    /\ burstClicks = 0
    /\ burstCalls = 0
    /\ executeCalls = 0
    /\ lastOutcome = "none"
    /\ onCloseCalls = 0

\* props.actions is not looked at.
NoRegistry ==
    /\ propsActions = <<>>
    /\ renderer = "useActions"
    /\ computed = FALSE
    /\ rendered = <<>>
    /\ mustShow = FALSE
    /\ warned = <<>>
    /\ executed = {}
    /\ buttonOverride = "none"
    /\ callerInvoked = {}

\* The two rendered actions of the pair, and a button nothing has touched.
ButtonNames == {"A", "B"}

FreshButton == [disabled |-> FALSE, suspended |-> 0, calls |-> 0]

\* No pair of actions is looked at.
NoPair ==
    /\ pairActions = [b \in ButtonNames |-> NoAction]
    /\ pairButtons = [b \in ButtonNames |-> FreshButton]
    /\ replacedPending = [b \in ButtonNames |-> 0]
    /\ recomputes = 0

\* useIntervalFn, useTimeoutFn and Animation handles that do not exist.
IntervalUndefined == [defined |-> FALSE, active |-> FALSE, left |-> 0, every |-> 0]

AnimationUndefined ==
    [defined |-> FALSE, playing |-> FALSE, currentTime |-> 0,
     playbackRate |-> 1, length |-> 0]

\* No useTimer is looked at on its own.
NoTimer ==
    /\ timerImpl = "none"
    /\ intervalFn = IntervalUndefined
    /\ timeout = StopUndefined
    /\ animation = AnimationUndefined
    /\ progressBarRef = FALSE
    /\ endCalls = 0
    /\ threw = FALSE
    /\ initialized = FALSE
    /\ lastOp = "none"
    /\ sinceOp = 0
    /\ running = FALSE
    /\ ranMs = 0
    /\ durationChanged = FALSE
    /\ cyclesOnly = TRUE
    /\ ops = 0
    /\ clock = 0

\* A notification without actions.
Init ==
    InitState({NoAction}) /\ disableAfterExecute = "absent" /\ NoRegistry
        /\ NoPair /\ NoTimer

\* A notification with one action, no progress bar.
InitActions ==
    /\ InitState(ActionConfigs)
    /\ duration \in {0, 2 * Step}
    /\ showProgressBar = FALSE
    /\ timerControls = "pause-resume"
    /\ disableAfterExecute = "absent"
    /\ NoRegistry
    /\ NoPair
    /\ NoTimer

\* onMounted hook.
onMounted ==
    /\ phase = "setup"
    /\ phase' = "mounted"
    /\ interval' = IF duration >= 0 /\ showProgressBar
                   THEN [on |-> TRUE, left |-> ProgressTickMs]
                   ELSE interval
    /\ startTimer
    /\ visible' = TRUE
    /\ UNCHANGED <<duration, timerControls, showProgressBar, remaining>>
    /\ UNCHANGED btnVars
    /\ Observe("mount", TRUE)
    /\ UNCHANGED <<paused, hist, unpausedMs>>

\* @mouseenter="clearTimer"
MouseEnter ==
    /\ phase = "mounted"
    /\ clearTimer
    /\ UNCHANGED <<duration, timerControls, showProgressBar, phase, visible,
                   remaining, interval>>
    /\ UNCHANGED btnVars
    /\ Observe("mouseenter", visible)
    /\ HoverStep(TRUE)

\* @mouseleave="startTimer"
MouseLeave ==
    /\ phase = "mounted"
    /\ CanStart
    /\ startTimer
    /\ UNCHANGED <<duration, timerControls, showProgressBar, phase, visible,
                   remaining, interval>>
    /\ UNCHANGED btnVars
    /\ Observe("mouseleave", visible)
    /\ HoverStep(FALSE)

\* Mutant: onKeydown without its escape branch.
onKeydown_EscapeAsOtherKey(code) ==
    IF code \in {"Delete", "Backspace"}
    THEN /\ clearTimer
         /\ UNCHANGED visible
    ELSE /\ startTimer
         /\ UNCHANGED visible

\* onKeydown({ code }), the document's keydown listener.
onKeydown(code) ==
    IF code \in {"Delete", "Backspace"}
    THEN /\ clearTimer
         /\ UNCHANGED visible
    ELSE IF code = "Escape"
    THEN /\ visible' = IF visible THEN FALSE ELSE visible
         /\ UNCHANGED <<stop, orphans>>
    ELSE /\ startTimer
         /\ UNCHANGED visible

KeyKind(code) ==
    IF code \in {"Delete", "Backspace"} THEN "delete"
    ELSE IF code = "Escape" THEN "Escape" ELSE "otherkey"

Keydown ==
    \E code \in EventCodes :
        /\ phase = "mounted"
        /\ KeyKind(code) = "otherkey" => CanStart
        /\ onKeydown(code)
        /\ UNCHANGED <<duration, timerControls, showProgressBar, phase,
                       remaining, interval>>
        /\ UNCHANGED btnVars
        /\ Observe(KeyKind(code), visible')
        /\ OtherStep(IF KeyKind(code) = "delete" THEN TRUE
                     ELSE IF KeyKind(code) = "otherkey" THEN FALSE
                     ELSE paused)

\* @click.stop="close" of the close icon, and the exposed close().
CloseButton ==
    /\ phase = "mounted"
    /\ close
    /\ UNCHANGED <<duration, timerControls, showProgressBar, phase,
                   remaining, stop, orphans, interval>>
    /\ UNCHANGED btnVars
    /\ Observe("closeBtn", FALSE)
    /\ OtherStep(paused)

\* The host changes props.duration; notification.vue has no watcher on it.
SetDuration ==
    \E d \in Durations :
        /\ phase = "mounted"
        /\ propChanges < MaxPropChanges
        /\ d # duration
        /\ duration' = d
        /\ UNCHANGED <<timerControls, showProgressBar, phase, visible,
                       remaining, stop, orphans, interval>>
        /\ UNCHANGED btnVars
        /\ Observe("setDuration", visible)
        /\ OtherStep(paused)

\* The delays of the orphaned timeouts after one step, the fired ones removed.
RECURSIVE Elapse(_)
Elapse(s) ==
    IF s = <<>> THEN <<>>
    ELSE IF Head(s) <= Step THEN Elapse(Tail(s))
    ELSE <<Head(s) - Step>> \o Elapse(Tail(s))

SomeTimeoutFires ==
    \/ stop.pending /\ stop.left <= Step
    \/ \E i \in 1..Len(orphans) : orphans[i] <= Step

\* Step ms of virtual time pass; the timeouts and the interval that are due
\* run their callbacks.
Tick ==
    /\ phase = "mounted"
    /\ now < MaxSteps
    /\ now' = now + 1
    /\ stop' = IF ~stop.pending THEN stop
               ELSE IF stop.left <= Step THEN StopTimeout(stop)
               ELSE [stop EXCEPT !.left = @ - Step]
    /\ orphans' = Elapse(orphans)
    /\ visible' = IF SomeTimeoutFires THEN TimeoutCallback(visible) ELSE visible
    /\ IF interval.on /\ interval.left <= Step
       THEN /\ remaining' = remaining - ProgressTickMs
            /\ interval' = [interval EXCEPT !.left = ProgressTickMs]
       ELSE /\ remaining' = remaining
            /\ interval' = IF interval.on
                           THEN [interval EXCEPT !.left = @ - Step]
                           ELSE interval
    /\ UNCHANGED <<duration, timerControls, showProgressBar, phase>>
    /\ quietMs' = IF lastInput \in TimedInputs THEN quietMs + Step ELSE quietMs
    /\ unpausedMs' = IF hist # "other" /\ ~paused THEN unpausedMs + Step
                     ELSE unpausedMs
    /\ closedBy' = IF visible /\ ~visible' THEN "timer" ELSE closedBy
    /\ burstClicks' = 0
    /\ burstCalls' = 0
    /\ UNCHANGED <<lastInput, openAtInput, paused, hist, everPositive,
                   propChanges>>
    /\ UNCHANGED btnVars

\* The closeNotification callback handed to useActions: the component's
\* close().
closeNotification == close

\* Mutant: onClick that does not await the promise of execute().
onClick_NoAwait(o) ==
    /\ disabled' = enableIfNeeded(action, disableIfNeeded(action, disabled))
    /\ UNCHANGED <<pending, microtasks>>
    /\ IF action.keepOpen # "true" THEN closeNotification
                ELSE UNCHANGED visible

\* Mutant: onClick whose finally block never closes the notification.
onClick_NoClose(o) ==
    /\ UNCHANGED visible
    /\ IF action.keepOpen = "until-resolved" /\ o # "throws"
       THEN /\ disabled' = disableIfNeeded(action, disabled)
            /\ pending' = IF o = "promise" THEN pending + 1 ELSE pending
            /\ microtasks' = IF o = "returns" THEN microtasks + 1
                             ELSE microtasks
       ELSE /\ disabled' = enableIfNeeded(action,
                                          disableIfNeeded(action, disabled))
            /\ UNCHANGED <<pending, microtasks>>

\* Mutant: onClick whose finally block closes whatever keepOpen is.
onClick_AlwaysCloses(o) ==
    /\ IF action.keepOpen = "until-resolved" /\ o # "throws"
       THEN UNCHANGED visible ELSE closeNotification
    /\ IF action.keepOpen = "until-resolved" /\ o # "throws"
       THEN /\ disabled' = disableIfNeeded(action, disabled)
            /\ pending' = IF o = "promise" THEN pending + 1 ELSE pending
            /\ microtasks' = IF o = "returns" THEN microtasks + 1
                             ELSE microtasks
       ELSE /\ disabled' = enableIfNeeded(action,
                                          disableIfNeeded(action, disabled))
            /\ UNCHANGED <<pending, microtasks>>

\* makeActionButton: async onClick(), run until it returns or suspends at
\* `await maybePromise`; o is what execute() does in this call.  The await
\* suspends the handler also when execute() returned no promise: it then
\* resumes at the next microtask checkpoint.
onClick(o) ==
    IF action.keepOpen = "until-resolved" /\ o # "throws"
    THEN /\ disabled' = disableIfNeeded(action, disabled)
         /\ pending' = IF o = "promise" THEN pending + 1 ELSE pending
         /\ microtasks' = IF o = "returns" THEN microtasks + 1 ELSE microtasks
         /\ UNCHANGED visible
    ELSE /\ disabled' = enableIfNeeded(action, disableIfNeeded(action, disabled))
         /\ UNCHANGED <<pending, microtasks>>
         /\ IF action.keepOpen # "true" THEN closeNotification
                ELSE UNCHANGED visible

\* makeActionButton: onClick() resumed when the awaited promise has settled
\* either way: the finally block.
onClickResumed(s) ==
    /\ disabled' = enableIfNeeded(action, disabled)
    /\ IF action.keepOpen # "true" THEN closeNotification
                ELSE UNCHANGED visible

\* useActions of unnamed/part_002: the execute wrapper of a rendered action.
wrapperExecute(o) ==
    /\ UNCHANGED disabled
    /\ IF action.keepOpen = "false"
       THEN /\ IF o = "throws" THEN UNCHANGED visible ELSE closeNotification
            /\ UNCHANGED <<pending, microtasks>>
       ELSE IF action.keepOpen = "until-resolved"
       THEN /\ UNCHANGED visible
            /\ pending' = IF o = "promise" THEN pending + 1 ELSE pending
            /\ microtasks' = IF o = "returns" THEN microtasks + 1 ELSE microtasks
       ELSE UNCHANGED <<visible, pending, microtasks>>

\* The async wrapper of part_002 resumed after `await action.execute()`.
wrapperResumed(s) ==
    /\ UNCHANGED disabled
    /\ IF s = "resolved" THEN closeNotification ELSE UNCHANGED visible

\* ElButton emits click only while it is not disabled.
ElButtonEmitsClick == ~disabled

\* A click on the action's button.
ActionClick ==
    \E o \in ExecuteOutcomes :
        /\ phase = "mounted"
        /\ action.impl # "none"
        /\ ElButtonEmitsClick
        /\ executeCalls < MaxClicks
        /\ IF action.impl = "makeActionButton" THEN onClick(o)
           ELSE wrapperExecute(o)
        /\ executeCalls' = executeCalls + 1
        /\ lastOutcome' = o
        /\ UNCHANGED <<duration, timerControls, showProgressBar, phase,
                       remaining, stop, orphans, interval, action,
                       disableAfterExecute>>
        /\ Observe("click", visible')
        /\ OtherStep(paused)

\* A click on the action's button that the disabled button does not emit.
ActionClickIgnored ==
    /\ phase = "mounted"
    /\ action.impl # "none"
    /\ ~ElButtonEmitsClick
    /\ burstClicks < MaxClicks
    /\ UNCHANGED progVars
    /\ UNCHANGED btnVars
    /\ Observe("clickIgnored", visible)
    /\ OtherStep(paused)

\* Microtask checkpoint: a handler suspended at the await of a value that is
\* no promise resumes.
MicrotaskCheckpoint ==
    /\ microtasks > 0
    /\ microtasks' = microtasks - 1
    /\ IF action.impl = "makeActionButton" THEN onClickResumed("resolved")
       ELSE wrapperResumed("resolved")
    /\ lastOutcome' = "resolved"
    /\ UNCHANGED <<duration, timerControls, showProgressBar, phase,
                   remaining, stop, orphans, interval, action, pending,
                   disableAfterExecute, executeCalls>>
    /\ Observe("settle", visible')
    /\ OtherStep(paused)

\* The promise an execute() returned settles and the suspended handler runs.
ActionSettle ==
    \E s \in Settlements :
        /\ pending > 0
        /\ pending' = pending - 1
        /\ IF action.impl = "makeActionButton" THEN onClickResumed(s)
           ELSE wrapperResumed(s)
        /\ lastOutcome' = s
        /\ UNCHANGED <<duration, timerControls, showProgressBar, phase,
                       remaining, stop, orphans, interval, action,
                       microtasks, disableAfterExecute, executeCalls>>
        /\ Observe("settle", visible')
        /\ OtherStep(paused)

\* Mutant: onClose called by every step that finds the notification hidden.
beforeLeave_WheneverHidden ==
    onCloseCalls' = IF ~visible' THEN onCloseCalls + 1 ELSE onCloseCalls

\* <transition @before-leave="onClose"> around the v-show="visible" root:
\* the leave hook runs when a step has turned visible from true to false.
beforeLeave ==
    onCloseCalls' = IF visible /\ ~visible' THEN onCloseCalls + 1
                    ELSE onCloseCalls

Next ==
    \/ onMounted
    \/ MouseEnter
    \/ MouseLeave
    \/ Keydown
    \/ CloseButton
    \/ SetDuration
    \/ Tick

Spec ==
    Init /\ [][Next /\ beforeLeave
                 /\ UNCHANGED <<regVars, pairVars, tmrVars>>]_vars

\* Events and timers are tasks: none runs while a microtask is queued.
\* Clicks made by script in one task (button.click() in a loop) do.
NextActions ==
    \/ microtasks = 0 /\ onMounted
    \/ microtasks = 0 /\ MouseEnter
    \/ microtasks = 0 /\ MouseLeave
    \/ microtasks = 0 /\ Keydown
    \/ microtasks = 0 /\ CloseButton
    \/ microtasks = 0 /\ Tick
    \/ microtasks = 0 /\ ActionSettle
    \/ ActionClick
    \/ ActionClickIgnored
    \/ MicrotaskCheckpoint

SpecActions ==
    InitActions
        /\ [][NextActions /\ beforeLeave
                 /\ UNCHANGED <<regVars, pairVars, tmrVars>>]_vars

\* A notification with duration 0 and one action, whose descriptor may carry
\* disableAfterExecute: the setting of the keepOpen and disableAfterExecute
\* tests.
InitClicks ==
    /\ InitState(ActionConfigs)
    /\ duration = 0
    /\ showProgressBar = FALSE
    /\ timerControls = "pause-resume"
    /\ NoRegistry
    /\ NoPair
    /\ NoTimer

NextClicks ==
    \/ microtasks = 0 /\ onMounted
    \/ microtasks = 0 /\ CloseButton
    \/ microtasks = 0 /\ Tick
    \/ microtasks = 0 /\ ActionSettle
    \/ ActionClick
    \/ ActionClickIgnored
    \/ MicrotaskCheckpoint

SpecClicks ==
    InitClicks
        /\ [][NextClicks /\ beforeLeave
                 /\ UNCHANGED <<regVars, pairVars, tmrVars>>]_vars

----------------------------------------------------------------------------
(* The action registry: from props.actions to rendered actions             *)

\* Longest props.actions explored.
MaxActions == 3

\* Label strings: plain ones, array-index strings, a property name of
\* Object.prototype and the empty string.
LabelStrings == {"a", "1", "2", "constructor", ""}

\* A descriptor of props.actions, by what the code asks of it: whether
\* typeof label is 'string' and which, and whether typeof execute is
\* 'function'.  The execute of a descriptor is told apart by its position.
Descriptors ==
    [labelIsString : {TRUE}, label : LabelStrings,
     executeIsFunction : BOOLEAN]
    \cup
    [labelIsString : {FALSE}, label : {""}, executeIsFunction : BOOLEAN]

ActionLists == UNION {[1..n -> Descriptors] : n \in 0..MaxActions}

\* The predicate of .filter(...).
filter(a) == a.executeIsFunction /\ a.labelIsString /\ a.label # ""

\* Property names every object literal inherits from Object.prototype.
ObjectPrototypeKeys == {"constructor"}

\* The accumulator of .reduce(..., {}): its own keys in creation order, the
\* position in props.actions each was made from, and the debugWarn calls.
EmptyRecord == [keys |-> <<>>, from |-> <<>>, warns |-> <<>>]

\* Truthiness of actions[label]: an own entry, or an inherited property.
Lookup(acc, label) ==
    \/ label \in ObjectPrototypeKeys
    \/ \E k \in 1..Len(acc.keys) : acc.keys[k] = label

\* The reducer: `if (!actions[label]) { actions[label] = ... } else
\* { debugWarn(...) }`.
reduceStep(acc, i, a) ==
    IF ~Lookup(acc, a.label)
    THEN [acc EXCEPT !.keys = Append(@, a.label), !.from = Append(@, i)]
    ELSE [acc EXCEPT !.warns = Append(@, a.label)]

\* .filter(...).reduce(...) over props.actions from position i on.
RECURSIVE preparedActions(_, _, _)
preparedActions(acc, list, i) ==
    IF i > Len(list) THEN acc
    ELSE preparedActions(IF filter(list[i]) THEN reduceStep(acc, i, list[i])
                         ELSE acc,
                         list, i + 1)

\* The array index a property name is, or -1: own keys that are array
\* indices are enumerated first, in ascending order.
ArrayIndex(label) ==
    CASE label = "1" -> 1
      [] label = "2" -> 2
      [] OTHER -> -1

\* Positions of acc.keys in the order Object.values enumerates them.
RECURSIVE Ascending(_, _)
Ascending(acc, ks) ==
    IF ks = {} THEN <<>>
    ELSE LET k == CHOOSE x \in ks :
                      \A y \in ks : ArrayIndex(acc.keys[x])
                                        <= ArrayIndex(acc.keys[y])
         IN <<k>> \o Ascending(acc, ks \ {k})

RECURSIVE InOrder(_, _, _)
InOrder(acc, ks, k) ==
    IF k > Len(acc.keys) THEN <<>>
    ELSE (IF k \in ks THEN <<k>> ELSE <<>>) \o InOrder(acc, ks, k + 1)

ObjectValues(acc) ==
    LET idx == {k \in 1..Len(acc.keys) : ArrayIndex(acc.keys[k]) >= 0}
        ord == Ascending(acc, idx)
                   \o InOrder(acc, (1..Len(acc.keys)) \ idx, 1)
    IN [n \in 1..Len(ord) |->
           [label |-> acc.keys[ord[n]], from |-> acc.from[ord[n]]]]

\* useActions of composables.ts: the computed actions_, its debugWarn calls
\* and mustShow.
useActions(list) ==
    LET acc == preparedActions(EmptyRecord, list, 1)
    IN [actions |-> ObjectValues(acc),
        warns |-> acc.warns,
        mustShow |-> Len(ObjectValues(acc)) > 0]

\* The template of notification.vue: `v-if="actions?.length"` and
\* `v-for="action in actions"` over props.actions itself.
templateActions(list) ==
    [actions |-> [n \in 1..Len(list) |->
                     [label |-> list[n].label, from |-> n]],
     warns |-> <<>>,
     mustShow |-> Len(list) > 0]

Renderers == {"useActions", "template"}

\* Spellings of a click-handler key in a descriptor's `button`.
ClickHandlerKeys == {"onClick", "onclick", "OnClicK"}

ButtonOverrides == {"none"} \cup ClickHandlerKeys

\* makeActionButton: `{ size: 'small', ...action.button, async onClick()
\* {...} }`, as a map from each key to whose value it holds.
buttonProps(override) ==
    [k \in {"size", "onClick"} \cup ({override} \ {"none"}) |->
        IF k = "onClick" THEN "registry"
        ELSE IF k = override THEN "caller" ELSE "default"]

\* The keys of a button's props that a click on the button calls: the
\* listener onClick and the native handler property onclick; any other
\* spelling is set as an attribute and called by nothing.
CalledOnClick(k) == k \in {"onClick", "onclick"}

\* Whose functions a click on a button with these props calls.
ClickCalls(props) == {props[k] : k \in {x \in DOMAIN props : CalledOnClick(x)}}

InitRegistry ==
    /\ InitState({NoAction})
    /\ duration = 0
    /\ showProgressBar = FALSE
    /\ timerControls = "pause-resume"
    /\ disableAfterExecute = "absent"
    /\ propsActions \in ActionLists
    /\ renderer \in Renderers
    /\ computed = FALSE
    /\ rendered = <<>>
    /\ mustShow = FALSE
    /\ warned = <<>>
    /\ executed = {}
    /\ buttonOverride \in ButtonOverrides
    /\ callerInvoked = {}
    /\ NoPair
    /\ NoTimer

\* The rendered list is computed for the render of the component.
Render ==
    /\ ~computed
    /\ computed' = TRUE
    /\ LET r == IF renderer = "useActions" THEN useActions(propsActions)
                ELSE templateActions(propsActions)
       IN /\ rendered' = r.actions
          /\ warned' = r.warns
          /\ mustShow' = r.mustShow
    /\ UNCHANGED <<propsActions, renderer, executed, buttonOverride,
                   callerInvoked>>
    /\ UNCHANGED <<progVars, obsVars, btnVars>>

\* A click on the n-th rendered button.  The template of notification.vue
\* binds `@click="action.execute"` and nothing of the descriptor's button;
\* the button of useActions is bound with the props of makeActionButton,
\* whose onClick calls execute.
ClickRendered ==
    \E n \in 1..Len(rendered) :
        /\ computed
        /\ mustShow
        /\ rendered[n].from \notin executed
        /\ IF renderer = "template"
           THEN /\ propsActions[rendered[n].from].executeIsFunction
                /\ executed' = executed \cup {rendered[n].from}
                /\ UNCHANGED callerInvoked
           ELSE LET calls == ClickCalls(buttonProps(buttonOverride))
                IN /\ executed' = IF "registry" \in calls
                                  THEN executed \cup {rendered[n].from}
                                  ELSE executed
                   /\ callerInvoked' = IF "caller" \in calls
                                       THEN callerInvoked \cup {rendered[n].from}
                                       ELSE callerInvoked
                   /\ <<executed, callerInvoked>>' # <<executed, callerInvoked>>
        /\ UNCHANGED <<propsActions, renderer, computed, rendered, mustShow,
                       warned, buttonOverride>>
        /\ UNCHANGED <<progVars, obsVars, btnVars>>

NextRegistry ==
    \/ Render
    \/ ClickRendered

SpecRegistry ==
    InitRegistry
        /\ [][NextRegistry /\ beforeLeave
                 /\ UNCHANGED <<pairVars, tmrVars>>]_vars

----------------------------------------------------------------------------
(* Two rendered actions side by side                                       *)

\* Mutant: one disabled flag shared by all rendered actions.
setDisabled_Shared(bs, b, v) ==
    [c \in DOMAIN bs |-> [bs[c] EXCEPT !.disabled = v]]

\* ReactiveActionButton: `this.props.disabled = ...` on the props object
\* that makeActionButton made for this action.
setDisabled(bs, b, v) == [bs EXCEPT ![b].disabled = v]

\* button.disableIfNeeded() / button.enableIfNeeded() of action b.
disableIfNeededOf(bs, b) ==
    IF disableWhilePending(pairActions[b]) THEN setDisabled(bs, b, TRUE)
    ELSE bs

enableIfNeededOf(bs, b) ==
    IF disableWhilePending(pairActions[b]) THEN setDisabled(bs, b, FALSE)
    ELSE bs

\* makeActionButton.onClick of action b until it returns or suspends at its
\* await; o is what execute() does in this call.
onClickOf(b, o) ==
    LET called == [disableIfNeededOf(pairButtons, b) EXCEPT ![b].calls = @ + 1]
    IN IF pairActions[b].keepOpen = "until-resolved" /\ o # "throws"
       THEN /\ pairButtons' = [called EXCEPT ![b].suspended = @ + 1]
            /\ UNCHANGED visible
       ELSE /\ pairButtons' = enableIfNeededOf(called, b)
            /\ IF pairActions[b].keepOpen # "true" THEN closeNotification
               ELSE UNCHANGED visible

\* onClick of action b resumed after its await: the finally block.
onClickResumedOf(b) ==
    /\ pairButtons' = [enableIfNeededOf(pairButtons, b)
                          EXCEPT ![b].suspended = @ - 1]
    /\ IF pairActions[b].keepOpen # "true" THEN closeNotification
       ELSE UNCHANGED visible

\* The descriptors of the pair: makeActionButton actions.
PairConfigs == {a \in ActionConfigs : a.impl = "makeActionButton"}

InitPair ==
    /\ InitState({NoAction})
    /\ duration = 0
    /\ showProgressBar = FALSE
    /\ timerControls = "pause-resume"
    /\ disableAfterExecute = "absent"
    /\ NoRegistry
    /\ pairActions \in [ButtonNames -> PairConfigs]
    /\ pairButtons = [b \in ButtonNames |-> FreshButton]
    /\ replacedPending = [b \in ButtonNames |-> 0]
    /\ recomputes = 0
    /\ NoTimer

\* The component is mounted.
MountPair ==
    /\ onMounted
    /\ UNCHANGED pairVars

\* A click on the button of action b that the button emits.
ClickButton(b) ==
    /\ phase = "mounted"
    /\ ~pairButtons[b].disabled
    /\ pairButtons[b].calls < MaxClicks
    /\ \E o \in ExecuteOutcomes : onClickOf(b, o)
    /\ UNCHANGED <<duration, timerControls, showProgressBar, phase, remaining,
                   stop, orphans, interval, pairActions>>
    /\ UNCHANGED <<replacedPending, recomputes>>
    /\ UNCHANGED <<obsVars, btnVars>>

ClickPair == \E b \in ButtonNames : ClickButton(b)

\* The awaited result of an activation of action b settles.
SettlePair ==
    \E b \in ButtonNames :
        /\ pairButtons[b].suspended > 0
        /\ onClickResumedOf(b)
        /\ UNCHANGED <<duration, timerControls, showProgressBar, phase,
                       remaining, stop, orphans, interval, pairActions>>
        /\ UNCHANGED <<replacedPending, recomputes>>
        /\ UNCHANGED <<obsVars, btnVars>>

NextPair ==
    \/ MountPair
    \/ ClickPair
    \/ SettlePair

SpecPair ==
    InitPair /\ [][NextPair /\ beforeLeave
                     /\ UNCHANGED <<regVars, tmrVars>>]_vars

(* The action list is evaluated again while the notification is shown.    *)

\* Evaluations of the computed explored after the first.
MaxRecomputes == 1

\* The computed of useActions runs again (props.actions was replaced by a
\* list of the same descriptors): makeActionButton is called again for every
\* label, and the handlers suspended in the buttons made before stay
\* suspended, each holding the button it was made with.
RecomputePair ==
    /\ phase = "mounted"
    /\ recomputes < MaxRecomputes
    /\ recomputes' = recomputes + 1
    /\ pairButtons' = [b \in ButtonNames |-> FreshButton]
    /\ replacedPending' =
           [b \in ButtonNames |-> replacedPending[b] + pairButtons[b].suspended]
    /\ UNCHANGED <<progVars, obsVars, btnVars, pairActions>>

\* The awaited result of an activation settles whose button has been
\* replaced: the finally block enables the old button and closes.
SettleReplaced ==
    \E b \in ButtonNames :
        /\ replacedPending[b] > 0
        /\ replacedPending' = [replacedPending EXCEPT ![b] = @ - 1]
        /\ IF pairActions[b].keepOpen # "true" THEN closeNotification
           ELSE UNCHANGED visible
        /\ UNCHANGED <<duration, timerControls, showProgressBar, phase,
                       remaining, stop, orphans, interval>>
        /\ UNCHANGED <<pairActions, pairButtons, recomputes>>
        /\ UNCHANGED <<obsVars, btnVars>>

NextRecompute ==
    \/ NextPair
    \/ RecomputePair
    \/ SettleReplaced

SpecRecompute ==
    InitPair /\ [][NextRecompute /\ beforeLeave
                     /\ UNCHANGED <<regVars, tmrVars>>]_vars

----------------------------------------------------------------------------
(* The composables useTimer and useProgressBar of composables.ts, driven   *)
(* by a host that calls their operations in any order                      *)

\* const MAGIC_NUMBER = 10 of the first useTimer: its tick, in milliseconds.
MAGIC_NUMBER == 10

\* Milliseconds of virtual time per Advance: half of the shortest tick.
TimerStep == MAGIC_NUMBER \div 2

\* Largest positive duration given to useTimer, in steps.
MaxTimerDurationSteps == 4

\* Virtual time explored after setup, in steps.
MaxTimerSteps == 6

\* Operations of the host explored in one behaviour.
MaxOps == 4

TimerDurations ==
    {-TimerStep, 0} \cup {k * TimerStep : k \in 2..MaxTimerDurationSteps}

\* The first useTimer (fixed tick), the timeout + animation one and the one
\* whose tick is computed from the duration.
TimerImpls == {"fixedInterval", "timeout", "interval"}

\* clamp(n, min, max) of @vueuse/core.
clamp(n, min, max) == IF n < min THEN min ELSE IF n > max THEN max ELSE n

\* computed(() => clamp(toValue(duration) / 16.7, 10, 100)); the quotient is
\* exact where the clamp cuts it, which is so for every duration explored.
computedMagicNumber(d) == clamp((10 * d) \div 167, 10, 100)

\* The tick the interval callback subtracts, for the useTimer in use.
MagicNumberValue(d) ==
    IF timerImpl = "fixedInterval" THEN MAGIC_NUMBER ELSE computedMagicNumber(d)

\* useIntervalFn(cb, ms, { immediate: false }): made, not started.
IntervalIdle == [defined |-> TRUE, active |-> FALSE, left |-> 0, every |-> 0]

\* resume() of useIntervalFn: a new setInterval of ms milliseconds replaces
\* the one that was running; nothing happens for ms <= 0.
intervalResume(i, ms) ==
    IF ms <= 0 THEN i
    ELSE [defined |-> TRUE, active |-> TRUE, left |-> ms, every |-> ms]

\* pause() of useIntervalFn: clearInterval.
intervalPause(i) == [i EXCEPT !.active = FALSE, !.left = 0]

\* start() of useTimeoutFn: the pending timeout is cleared and a new one of
\* the current value of its delay is set.
timeoutStart(t, ms) == [t EXCEPT !.pending = TRUE, !.left = IF ms > 0 THEN ms ELSE 0]

\* new Animation(new KeyframeEffect(el, ..., { duration, fill: 'forwards' })):
\* idle, its currentTime null, which Number() reads as 0.
newAnimation(d) ==
    [defined |-> TRUE, playing |-> FALSE, currentTime |-> 0,
     playbackRate |-> 1, length |-> d]

\* Animation.play(): an animation at the end of its direction starts over.
play(a) ==
    IF a.playbackRate > 0 /\ a.currentTime >= a.length
    THEN [a EXCEPT !.playing = TRUE, !.currentTime = 0]
    ELSE IF a.playbackRate < 0 /\ a.currentTime <= 0
    THEN [a EXCEPT !.playing = TRUE, !.currentTime = a.length]
    ELSE [a EXCEPT !.playing = TRUE]

\* Animation.pause()
animationPause(a) == [a EXCEPT !.playing = FALSE]

\* Animation.reverse(): the playback rate is negated and the animation plays.
reverse(a) == play([a EXCEPT !.playbackRate = -a.playbackRate])

\* The animation after ms milliseconds.
animationAfter(a, ms) ==
    IF ~a.playing THEN a
    ELSE LET t == clamp(a.currentTime + a.playbackRate * ms, 0, a.length)
         IN  [a EXCEPT !.currentTime = t,
                       !.playing = IF a.playbackRate > 0 THEN t < a.length
                                   ELSE t > 0]

(* The first useTimer: one interval of MAGIC_NUMBER made at setup.         *)

fixedInitialize ==
    /\ intervalFn' = IF duration > 0
                     THEN intervalResume(intervalFn, MAGIC_NUMBER)
                     ELSE intervalFn
    /\ UNCHANGED <<remaining, timeout>>

fixedPauseOrReset ==
    /\ remaining' = IF duration > 0 /\ timerControls = "reset-restart"
                    THEN duration ELSE remaining
    /\ intervalFn' = IF duration > 0 THEN intervalPause(intervalFn)
                     ELSE intervalFn
    /\ UNCHANGED timeout

fixedResumeOrRestart ==
    /\ intervalFn' = IF duration > 0
                     THEN intervalResume(intervalFn, MAGIC_NUMBER)
                     ELSE intervalFn
    /\ UNCHANGED <<remaining, timeout>>

(* The useTimer with a timeout, next to the useProgressBar with an         *)
(* animation.                                                              *)

timeoutInitialize ==
    /\ remaining' = IF duration > 0 THEN duration ELSE remaining
    /\ timeout' = IF duration > 0 THEN useTimeoutFn(duration) ELSE timeout
    /\ UNCHANGED intervalFn

\* pauseOrReset(animation): a is the animation handed in.  Reading a
\* property of an undefined animation throws, and so does an elapsed time
\* that Number() reads as 0.
timeoutPauseOrReset(a) ==
    /\ UNCHANGED intervalFn
    /\ IF ~timeout.defined \/ ~progressBarRef
       THEN /\ UNCHANGED <<remaining, timeout>>
            /\ animation' = a
            /\ threw' = FALSE
       ELSE /\ timeout' = StopTimeout(timeout)
            /\ IF ~a.defined
               THEN /\ UNCHANGED remaining
                    /\ animation' = a
                    /\ threw' = TRUE
               ELSE IF timerControls = "reset-restart"
               THEN /\ UNCHANGED remaining
                    /\ animation' = reverse(a)
                    /\ threw' = FALSE
               ELSE IF a.currentTime = 0
               THEN /\ UNCHANGED remaining
                    /\ animation' = a
                    /\ threw' = TRUE
               ELSE /\ remaining' = duration - a.currentTime
                    /\ animation' = a
                    /\ threw' = FALSE

timeoutResumeOrRestart ==
    /\ timeout' = IF timeout.defined THEN timeoutStart(timeout, remaining)
                  ELSE timeout
    /\ UNCHANGED <<remaining, intervalFn>>

timeoutCleanup ==
    /\ timeout' = IF timeout.defined THEN StopTimeout(timeout) ELSE timeout
    /\ UNCHANGED <<remaining, intervalFn>>

\* useProgressBar.initialize(): a KeyframeEffect of a negative duration
\* throws a TypeError.
progressBarInitialize ==
    IF ~progressBarRef THEN UNCHANGED animation /\ threw' = FALSE
    ELSE IF duration < 0 THEN UNCHANGED animation /\ threw' = TRUE
    ELSE animation' = play(newAnimation(duration)) /\ threw' = FALSE

\* useProgressBar.pause()
progressBarPause(a) == IF a.defined THEN animationPause(a) ELSE a

\* useProgressBar.resume()
progressBarResume(a) == IF a.defined THEN play(a) ELSE a

\* useProgressBar.cleanup(): animation.cancel(); animation = undefined
progressBarCleanup == animation' = AnimationUndefined

(* The useTimer whose interval is made by initialize().                    *)

intervalInitialize ==
    /\ intervalFn' = IF duration > 0
                     THEN intervalResume(IntervalIdle,
                                         computedMagicNumber(duration))
                     ELSE intervalFn
    /\ UNCHANGED <<remaining, timeout>>

\* Mutant: pauseOrReset that never resets remaining.
intervalPauseOrReset_NoReset ==
    /\ UNCHANGED remaining
    /\ intervalFn' = IF intervalFn.defined THEN intervalPause(intervalFn)
                     ELSE intervalFn
    /\ UNCHANGED timeout

intervalPauseOrReset ==
    /\ remaining' = IF intervalFn.defined /\ timerControls = "reset-restart"
                    THEN duration ELSE remaining
    /\ intervalFn' = IF intervalFn.defined THEN intervalPause(intervalFn)
                     ELSE intervalFn
    /\ UNCHANGED timeout

intervalResumeOrRestart ==
    /\ intervalFn' = IF intervalFn.defined
                     THEN intervalResume(intervalFn,
                                         computedMagicNumber(duration))
                     ELSE intervalFn
    /\ UNCHANGED <<remaining, timeout>>

\* Mutant: a cleanup that stops nothing.
intervalCleanup_Noop == UNCHANGED <<remaining, intervalFn, timeout>>

intervalCleanup ==
    /\ intervalFn' = IF intervalFn.defined THEN intervalPause(intervalFn)
                     ELSE intervalFn
    /\ UNCHANGED <<remaining, timeout>>

(* The host                                                                *)

ObserveOp(op) ==
    /\ lastOp' = op
    /\ sinceOp' = 0
    /\ ops' = ops + 1
    /\ clock' = clock
    /\ durationChanged' = (durationChanged \/ op = "setDuration")
    /\ cyclesOnly' = /\ cyclesOnly
                     /\ \/ op = "initialize" /\ lastOp = "none"
                        \/ op = "pauseOrReset" /\ running
                        \/ op = "resumeOrRestart" /\ lastOp = "pauseOrReset"

\* What an operation leaves alone of the component's own state.
TimerFrame ==
    UNCHANGED <<timerControls, showProgressBar, phase, visible, stop,
                orphans, interval, timerImpl, progressBarRef, endCalls>>

InitTimer ==
    /\ timerImpl \in TimerImpls
    /\ duration \in TimerDurations
    /\ timerControls \in TimerControls
    /\ showProgressBar = FALSE
    /\ progressBarRef \in (IF timerImpl = "timeout" THEN BOOLEAN ELSE {FALSE})
    /\ remaining = IF timerImpl = "timeout" THEN 0 ELSE duration
    /\ intervalFn = IF timerImpl = "fixedInterval" THEN IntervalIdle
                    ELSE IntervalUndefined
    /\ timeout = StopUndefined
    /\ animation = AnimationUndefined
    /\ endCalls = 0
    /\ threw = FALSE
    /\ initialized = FALSE
    /\ lastOp = "none"
    /\ sinceOp = 0
    /\ running = FALSE
    /\ ranMs = 0
    /\ durationChanged = FALSE
    /\ cyclesOnly = TRUE
    /\ ops = 0
    /\ clock = 0
    /\ phase = "setup"
    /\ visible = FALSE
    /\ stop = StopUndefined
    /\ orphans = <<>>
    /\ interval = [on |-> FALSE, left |-> 0]
    /\ now = 0
    /\ lastInput = "none"
    /\ quietMs = 0
    /\ openAtInput = FALSE
    /\ paused = FALSE
    /\ hist = "quiet"
    /\ unpausedMs = 0
    /\ closedBy = "none"
    /\ everPositive = (duration > 0)
    /\ propChanges = 0
    /\ action = NoAction
    /\ disabled = FALSE
    /\ pending = 0
    /\ microtasks = 0
    /\ disableAfterExecute = "absent"
    /\ burstClicks = 0
    /\ burstCalls = 0
    /\ executeCalls = 0
    /\ lastOutcome = "none"
    /\ onCloseCalls = 0
    /\ NoRegistry
    /\ NoPair

\* timer.initialize(), with progressBar.initialize() where the progress bar
\* has one; called once.
Initialize ==
    /\ ~initialized
    /\ ops < MaxOps
    /\ initialized' = TRUE
    /\ CASE timerImpl = "fixedInterval" ->
                fixedInitialize /\ UNCHANGED <<animation, threw>>
         [] timerImpl = "timeout" ->
                timeoutInitialize /\ progressBarInitialize
         [] timerImpl = "interval" ->
                intervalInitialize /\ UNCHANGED <<animation, threw>>
    /\ running' = (duration > 0)
    /\ ranMs' = 0
    /\ UNCHANGED duration
    /\ TimerFrame
    /\ ObserveOp("initialize")

\* timer.pauseOrReset(), after progressBar.pause() where the progress bar
\* has one.
PauseOrReset ==
    /\ ops < MaxOps
    /\ CASE timerImpl = "fixedInterval" ->
                fixedPauseOrReset /\ UNCHANGED <<animation, threw>>
         [] timerImpl = "timeout" ->
                timeoutPauseOrReset(progressBarPause(animation))
         [] timerImpl = "interval" ->
                intervalPauseOrReset /\ UNCHANGED <<animation, threw>>
    /\ running' = FALSE
    /\ UNCHANGED <<duration, initialized, ranMs>>
    /\ TimerFrame
    /\ ObserveOp("pauseOrReset")

\* timer.resumeOrRestart(), after progressBar.resume() where the progress
\* bar has one.
ResumeOrRestart ==
    /\ ops < MaxOps
    /\ CASE timerImpl = "fixedInterval" ->
                fixedResumeOrRestart /\ UNCHANGED animation
         [] timerImpl = "timeout" ->
                timeoutResumeOrRestart
                    /\ animation' = progressBarResume(animation)
         [] timerImpl = "interval" ->
                intervalResumeOrRestart /\ UNCHANGED animation
    /\ threw' = FALSE
    /\ running' = (initialized /\ duration > 0)
    /\ UNCHANGED <<duration, initialized, ranMs>>
    /\ TimerFrame
    /\ ObserveOp("resumeOrRestart")

\* timer.cleanup(); the first useTimer has none.
Cleanup ==
    /\ ops < MaxOps
    /\ timerImpl # "fixedInterval"
    /\ IF timerImpl = "timeout" THEN timeoutCleanup ELSE intervalCleanup
    /\ threw' = FALSE
    /\ running' = FALSE
    /\ UNCHANGED <<duration, initialized, ranMs, animation>>
    /\ TimerFrame
    /\ ObserveOp("cleanup")

\* progressBar.cleanup() of the useProgressBar with an animation.
ProgressBarCleanup ==
    /\ ops < MaxOps
    /\ timerImpl = "timeout"
    /\ progressBarCleanup
    /\ threw' = FALSE
    /\ UNCHANGED <<duration, remaining, intervalFn, timeout, initialized,
                   running, ranMs>>
    /\ TimerFrame
    /\ ObserveOp("progressBarCleanup")

\* The host changes duration, once: the watch of the interval timers writes
\* remaining, and useIntervalFn restarts a running interval whose computed
\* period has changed; the timeout timer has no watch.
SetTimerDuration ==
    \E d \in TimerDurations :
        /\ ops < MaxOps
        /\ ~durationChanged
        /\ d # duration
        /\ duration' = d
        /\ remaining' = IF timerImpl = "timeout" THEN remaining ELSE d
        /\ intervalFn' =
               IF /\ timerImpl = "interval"
                  /\ intervalFn.active
                  /\ computedMagicNumber(d) # computedMagicNumber(duration)
               THEN intervalResume(intervalFn, computedMagicNumber(d))
               ELSE intervalFn
        /\ threw' = FALSE
        /\ UNCHANGED <<timeout, animation, initialized, running, ranMs>>
        /\ TimerFrame
        /\ ObserveOp("setDuration")

\* The interval is due in this step.
IntervalDue == intervalFn.active /\ intervalFn.left <= TimerStep

\* The timeout is due in this step.
TimeoutDue == timeout.pending /\ timeout.left <= TimerStep

\* TimerStep ms of virtual time pass.  The interval callback:
\* remaining.value -= MAGIC_NUMBER; if (remaining.value <= 0)
\* { interval.pause(); onEnd() }.  The timeout callback: onEnd().
Advance ==
    /\ clock < MaxTimerSteps
    /\ clock' = clock + 1
    /\ sinceOp' = sinceOp + TimerStep
    /\ ranMs' = IF running THEN ranMs + TimerStep ELSE ranMs
    /\ remaining' = IF IntervalDue THEN remaining - MagicNumberValue(duration)
                    ELSE remaining
    /\ intervalFn' = IF IntervalDue
                     THEN (IF remaining' <= 0 THEN intervalPause(intervalFn)
                           ELSE [intervalFn EXCEPT !.left = intervalFn.every])
                     ELSE IF intervalFn.active
                     THEN [intervalFn EXCEPT !.left = @ - TimerStep]
                     ELSE intervalFn
    /\ timeout' = IF TimeoutDue THEN StopTimeout(timeout)
                  ELSE IF timeout.pending
                  THEN [timeout EXCEPT !.left = @ - TimerStep]
                  ELSE timeout
    /\ endCalls' = endCalls
                       + (IF IntervalDue /\ remaining' <= 0 THEN 1 ELSE 0)
                       + (IF TimeoutDue THEN 1 ELSE 0)
    /\ animation' = animationAfter(animation, TimerStep)
    /\ UNCHANGED <<duration, timerControls, showProgressBar, phase, visible,
                   stop, orphans, interval, timerImpl, progressBarRef, threw,
                   initialized, lastOp, running, durationChanged, cyclesOnly,
                   ops>>

NextTimer ==
    \/ Initialize
    \/ PauseOrReset
    \/ ResumeOrRestart
    \/ Cleanup
    \/ ProgressBarCleanup
    \/ SetTimerDuration
    \/ Advance

SpecTimer ==
    InitTimer
        /\ [][NextTimer /\ UNCHANGED <<obsVars, btnVars, regVars, pairVars,
                                        hookVars>>]_vars

----------------------------------------------------------------------------
(* The progress bar                                                        *)

\* Mutant: the bar rendered under the guard of the progress interval of
\* onMounted (duration >= 0).
progressBarMustShow_IntervalGuard(show, d) == show /\ d >= 0

\* useProgressBar.mustShow: toValue(showProgressBar) && toValue(duration) > 0,
\* the same expression as the v-if of the template's progress bar.
progressBarMustShow(show, d) == show /\ d > 0

\* v-if="showProgressBar && props.duration > 0": the bar is in the DOM.
progressBarShown == progressBarMustShow(showProgressBar, duration)

----------------------------------------------------------------------------
(* Properties                                                              *)

UserClosed == closedBy \in {"Escape", "closeBtn"}

\* C1: a notification whose duration has never been > 0 is never closed by
\* the timer: whatever time elapses and whatever mouse-enter, mouse-leave
\* and keydown events arrive, under either timerControls, it stays visible
\* until escape or the close button closes it, and no timeout is ever
\* scheduled for it.
C1_NonPositiveDurationNeverTimesOut ==
    (phase = "mounted" /\ ~everPositive /\ ~UserClosed)
        => (visible /\ closedBy = "none" /\ PendingTimeouts = 0)

C1_Witness ==
    /\ phase = "mounted"
    /\ ~everPositive
    /\ duration < 0
    /\ timerControls = "reset-restart"
    /\ lastInput = "otherkey"
    /\ now = MaxSteps
    /\ visible

\* C2 as claimed: a notification that was open at a mouse-enter stays open
\* for as long as no further event arrives, whatever events preceded the
\* mouse-enter.
C2_HoverPreventsClose ==
    (lastInput = "mouseenter" /\ openAtInput) => visible

\* C3 as claimed: with duration D > 0 and timerControls = 'pause-resume',
\* after any number of mouse-enter/mouse-leave pairs the notification is
\* closed once the time spent outside the hovers reaches D.
C3_PauseResumeClosesAtDuration ==
    (/\ phase = "mounted"
     /\ timerControls = "pause-resume"
     /\ hist # "other"
     /\ ~paused
     /\ duration > 0
     /\ unpausedMs >= duration) => ~visible

\* C4: with duration D > 0 and timerControls = 'reset-restart', after a
\* history of hovers that ends with a mouse-leave on the open notification,
\* it stays open while less than D has elapsed since that mouse-leave and
\* has been closed by the timer once D has elapsed since it.
C4_ResetRestartFullDuration ==
    (/\ timerControls = "reset-restart"
     /\ hist = "hover"
     /\ lastInput = "mouseleave"
     /\ openAtInput
     /\ duration > 0)
        => /\ quietMs < duration => visible
           /\ quietMs >= duration => (~visible /\ closedBy = "timer")

\* D = 100: 50 ms, mouse-enter, mouse-leave, 50 ms and a further 100 ms.
C4_Witness ==
    /\ timerControls = "reset-restart"
    /\ hist = "hover"
    /\ lastInput = "mouseleave"
    /\ openAtInput
    /\ duration = 100
    /\ now * Step = 200
    /\ quietMs = 150
    /\ ~visible
    /\ closedBy = "timer"

\* C5: a notification mounted with duration D > 0 that has received no
\* event is visible while less than D has elapsed since mount and has been
\* closed by the timer once D has elapsed.
C5_ClosesAfterDuration ==
    (phase = "mounted" /\ hist = "quiet" /\ lastInput = "mount" /\ duration > 0)
        => /\ now * Step < duration => visible
           /\ now * Step >= duration => (~visible /\ closedBy = "timer")

C5_Witness ==
    /\ hist = "quiet"
    /\ lastInput = "mount"
    /\ duration = MaxDurationSteps * Step
    /\ now * Step = duration
    /\ ~visible
    /\ closedBy = "timer"

\* C6: after a keydown with the escape code the notification is closed, in
\* the state the handler leaves, whatever the duration and whether or not a
\* timeout is pending.
C6_EscapeCloses ==
    lastInput = "Escape" => ~visible

\* Escape closes an open notification that never had a timer.
C6_Witness ==
    /\ lastInput = "Escape"
    /\ closedBy = "Escape"
    /\ ~everPositive
    /\ duration <= 0
    /\ now > 0

\* C7, first half: in every state the keydown handler does to the timer and to visible
\* what the mouse handler does: delete and backspace what clearTimer does,
\* any key other than these and escape what startTimer does.
C7_KeysActAsMouse ==
    /\ \A code \in {"Delete", "Backspace"} :
           ~ENABLED (onKeydown(code) /\ ~(clearTimer /\ UNCHANGED visible))
    /\ ~ENABLED (onKeydown("Enter") /\ ~(startTimer /\ UNCHANGED visible))

\* C7 as claimed: the keys act as the mouse events do, and a notification
\* that was open at a delete/backspace keydown is not closed for as long as
\* no further event arrives.
C7_DeleteActsAsMouseEnter ==
    /\ C7_KeysActAsMouse
    /\ (lastInput = "delete" /\ openAtInput) => visible

UntilResolvedButton ==
    action.impl = "makeActionButton" /\ action.keepOpen = "until-resolved"

C9_PendingActionKeepsOpen ==
    [][(UntilResolvedButton /\ pending > 0 /\ pending' > 0 /\ visible)
           => (visible' \/ closedBy' # "timer")]_vars

\* C10 as claimed: when the activation handler of an 'until-resolved' action
\* has ended after execute threw or its promise rejected, the button is not
\* disabled and the notification is closed.
C10_FailureStillCloses ==
    (/\ action.impl # "none"
     /\ action.keepOpen = "until-resolved"
     /\ pending = 0
     /\ lastOutcome \in {"throws", "rejected"}) => (~disabled /\ ~visible)

\* The same for the handler of makeActionButton alone.
C10_MakeActionButtonFailureStillCloses ==
    action.impl = "makeActionButton" => C10_FailureStillCloses

NoDisableOption ==
    disableAfterExecute = "absent" /\ action.disableWhilePending = "absent"

\* C12: for an action with keepOpen = true and no disable option on a
\* notification with duration 0, the button is never disabled, every click
\* of a run of clicks in immediate succession has called execute, and the
\* notification is open unless the close button closed it.
C12_KeepOpenTrueRunsEveryClick ==
    (/\ phase = "mounted"
     /\ action.impl = "makeActionButton"
     /\ action.keepOpen = "true"
     /\ NoDisableOption
     /\ closedBy # "closeBtn")
        => (~disabled /\ visible /\ burstCalls = burstClicks)

\* Two clicks in immediate succession, both executed, still open.
C12_Witness ==
    /\ action.impl = "makeActionButton"
    /\ action.keepOpen = "true"
    /\ NoDisableOption
    /\ burstClicks >= 2
    /\ burstCalls = burstClicks
    /\ lastInput = "click"
    /\ visible

\* The clicks counted are the first the button has received.
FirstBurst == executeCalls = burstCalls

\* C13 as claimed: for a makeActionButton action without a disable option
\* and with keepOpen absent, false or 'until-resolved', two or more clicks in
\* immediate succession have called execute exactly once.
C13_DefaultDisablesAfterExecute ==
    (/\ action.impl = "makeActionButton"
     /\ action.keepOpen # "true"
     /\ NoDisableOption
     /\ FirstBurst
     /\ burstClicks >= 2) => burstCalls = 1

\* C14 as claimed: with disableAfterExecute = true, for every keepOpen, two
\* or more clicks in immediate succession have called execute exactly once.
C14_DisabledActivationIsNoop ==
    (/\ action.impl = "makeActionButton"
     /\ disableAfterExecute = "true"
     /\ action.disableWhilePending = "absent"
     /\ FirstBurst
     /\ burstClicks >= 2) => burstCalls = 1

\* C15 as claimed: with disableAfterExecute = false, for every keepOpen,
\* every click of a run of clicks in immediate succession has called
\* execute.
C15_NotDisabledRunsEveryClick ==
    (/\ action.impl = "makeActionButton"
     /\ disableAfterExecute = "false"
     /\ action.disableWhilePending = "absent")
        => burstCalls = burstClicks

\* Positions of props.actions holding a descriptor with a function execute
\* and a non-empty string label.
ValidPositions == {i \in 1..Len(propsActions) : filter(propsActions[i])}

\* The valid positions whose label no earlier valid position carries.
FirstOccurrences ==
    {i \in ValidPositions :
        \A j \in ValidPositions :
            j < i => propsActions[j].label # propsActions[i].label}

RenderedWithLabel(l) == {n \in 1..Len(rendered) : rendered[n].label = l}

\* No valid descriptor is labelled with a property name of Object.prototype.
NoPrototypeLabel ==
    \A i \in ValidPositions : propsActions[i].label \notin ObjectPrototypeKeys

\* C16 as claimed: once the list is rendered, every label of a valid
\* descriptor has exactly one rendered action, made from the first valid
\* descriptor with that label, and no execute other than that of a first
\* occurrence has been called.
C16_SameLabelCollapsesToFirst ==
    computed =>
        /\ \A i \in ValidPositions :
               /\ Cardinality(RenderedWithLabel(propsActions[i].label)) = 1
               /\ \A n \in RenderedWithLabel(propsActions[i].label) :
                      rendered[n].from \in FirstOccurrences
        /\ executed \subseteq FirstOccurrences

\* The same for useActions and labels that are no property name of
\* Object.prototype.
C16_UseActionsPlainLabels ==
    (renderer = "useActions" /\ NoPrototypeLabel)
        => C16_SameLabelCollapsesToFirst

\* C17 as claimed: once the list is rendered, every rendered action and
\* every executed execute belongs to a valid descriptor, and the actions
\* container is rendered iff props.actions holds a valid descriptor.
C17_InvalidNeverRendered ==
    computed =>
        /\ \A n \in 1..Len(rendered) : rendered[n].from \in ValidPositions
        /\ executed \subseteq ValidPositions
        /\ mustShow <=> ValidPositions # {}

\* The same for useActions and labels that are no property name of
\* Object.prototype.
C17_UseActionsPlainLabels ==
    (renderer = "useActions" /\ NoPrototypeLabel) => C17_InvalidNeverRendered

\* C18 as claimed: the actions useActions renders are in the order in which
\* their descriptors come in props.actions.
C18_FirstOccurrenceOrder ==
    (computed /\ renderer = "useActions") =>
        \A m, n \in 1..Len(rendered) :
            m < n => rendered[m].from < rendered[n].from

\* The same for labels that are no array index.
C18_NonIndexLabels ==
    (\A i \in ValidPositions : ArrayIndex(propsActions[i].label) < 0)
        => C18_FirstOccurrenceOrder

WarnedWith(l) == {w \in 1..Len(warned) : warned[w] = l}

ValidWith(l) == {i \in ValidPositions : propsActions[i].label = l}

\* C19 as claimed: one computation by useActions has called debugWarn k - 1
\* times for a label carried by k valid descriptors, and never for another
\* label.
C19_OneDiagnosticPerDuplicate ==
    (computed /\ renderer = "useActions") =>
        \A l \in LabelStrings :
            Cardinality(WarnedWith(l)) =
                IF ValidWith(l) = {} THEN 0 ELSE Cardinality(ValidWith(l)) - 1

\* The same for labels that are no property name of Object.prototype.
C19_PlainLabels ==
    NoPrototypeLabel => C19_OneDiagnosticPerDuplicate

\* C20 as claimed: whatever the spelling of the click-handler key in a
\* descriptor's button, a click on the rendered button has called the
\* descriptor's execute and has not called the handler under that key.
C20_CallerClickHandlerNeverInvoked ==
    /\ callerInvoked = {}
    /\ renderer = "useActions"
           => "registry" \in ClickCalls(buttonProps(buttonOverride))

\* The same for the spelling onClick, which the registry's own onClick
\* replaces.
C20_OnClickReplaced ==
    buttonOverride \in {"none", "onClick"} => C20_CallerClickHandlerNeverInvoked

\* C21: the button of a rendered action is disabled only while an
\* activation of that same action is suspended, and an action none of whose
\* activations is suspended can be activated and calls its execute, whatever
\* the other action's state; so both can be suspended at once.
C21_DisabledIsPerAction ==
    \A b \in ButtonNames :
        /\ pairButtons[b].disabled => pairButtons[b].suspended > 0
        /\ (/\ phase = "mounted"
            /\ pairButtons[b].suspended = 0
            /\ pairButtons[b].calls < MaxClicks)
               => ENABLED (ClickButton(b)
                               /\ pairButtons'[b].calls
                                      = pairButtons[b].calls + 1)

\* A is suspended and disabled, B has been activated since and is suspended
\* too.
C21_Witness ==
    /\ \A b \in ButtonNames :
           /\ pairActions[b].keepOpen = "until-resolved"
           /\ pairActions[b].disableWhilePending = "absent"
           /\ pairButtons[b].suspended = 1
           /\ pairButtons[b].disabled
           /\ pairButtons[b].calls = 1
    /\ visible

\* C22: the progress bar is shown exactly when showProgressBar is true and
\* duration is positive: never when showProgressBar is false, never for a
\* negative or zero duration, always for showProgressBar with a positive
\* duration, before and after mount, with the timer running, stopped or
\* fired, and after props.duration has changed.
C22_ShownIffEnabledAndPositive ==
    /\ ~showProgressBar => ~progressBarShown
    /\ duration < 0 => ~progressBarShown
    /\ duration = 0 => ~progressBarShown
    /\ (showProgressBar /\ duration > 0) => progressBarShown

\* The progress interval runs for a duration of 0 and the bar is hidden.
C22_Witness ==
    /\ phase = "mounted"
    /\ showProgressBar
    /\ duration = 0
    /\ interval.on
    /\ propChanges = 1
    /\ now > 0
    /\ ~progressBarShown

Abs(x) == IF x < 0 THEN -x ELSE x

\* The delays left of the pending auto-close timeouts, and the time until
\* the first of them closes the notification.
PendingLefts ==
    {orphans[i] : i \in 1..Len(orphans)}
        \cup (IF stop.pending THEN {stop.left} ELSE {})

TimeLeft == CHOOSE x \in PendingLefts : \A y \in PendingLefts : x <= y

\* C23 as claimed, for the bar of an open notification, whose fraction is
\* remaining / duration: while an auto-close is scheduled, remaining is the
\* time left before it, to within one period of the progress countdown;
\* under pause-resume it does not change while the timer is paused; under
\* reset-restart it is the full duration once the timer has been paused; it
\* is within one period of zero when the timer closes the notification.
C23_FractionIsTimeLeft ==
    [][(progressBarShown /\ progressBarShown' /\ phase = "mounted" /\ visible)
          => /\ (visible' /\ PendingLefts' # {})
                    => Abs(remaining' - TimeLeft') < ProgressTickMs
             /\ (timerControls = "pause-resume" /\ paused /\ paused')
                    => remaining' = remaining
             /\ (timerControls = "reset-restart" /\ paused')
                    => remaining' = duration'
             /\ (~visible' /\ closedBy' = "timer")
                    => Abs(remaining') < ProgressTickMs]_vars

\* C24 as claimed: when props.duration changes to a new positive value
\* while the auto-close countdown of an open notification is running,
\* remaining is the new duration right after the change and the auto-close
\* is then scheduled the new duration after the change.
C24_DurationChangeResynchronizes ==
    [][(/\ propChanges' = propChanges + 1
        /\ duration > 0
        /\ duration' > 0
        /\ visible
        /\ PendingLefts # {})
          => /\ remaining' = duration'
             /\ PendingLefts' # {}
             /\ Abs(TimeLeft' - duration') < Step]_vars

\* C25: props.onClose has been called exactly once when the notification
\* has turned from visible to hidden and not at all before, whatever closed
\* it (close button or close(), escape, the timer, an action) and however
\* many further close triggers arrive before or after.
C25_OnCloseExactlyOnce ==
    onCloseCalls = IF phase = "mounted" /\ ~visible THEN 1 ELSE 0

\* An action closed the notification, then escape, the close button and the
\* timer's timeout followed.
C25_Witness ==
    /\ closedBy = "action"
    /\ lastInput = "closeBtn"
    /\ PendingTimeouts = 0
    /\ now > 1
    /\ duration > 0
    /\ ~visible
    /\ onCloseCalls = 1

\* The time until the countdown of the timer in use ends, while it runs.
CountdownRuns == intervalFn.active \/ timeout.pending

TimeToEnd ==
    IF intervalFn.active
    THEN intervalFn.left
             + ((remaining - 1) \div MagicNumberValue(duration))
                   * MagicNumberValue(duration)
    ELSE timeout.left

\* C26 as claimed: in pause-resume mode, for a duration D > 0 and a host
\* that has called initialize() and then only pauses of the running
\* countdown, each followed by a resume: once pauseOrReset has been called
\* after the countdown has run for t < D in total, and right after the
\* resumeOrRestart that follows, remaining is D - t to within one tick,
\* however many pause/resume cycles came before.
C26_PauseResumeKeepsTime ==
    (/\ timerControls = "pause-resume"
     /\ initialized
     /\ duration > 0
     /\ cyclesOnly
     /\ ranMs < duration
     /\ \/ lastOp = "pauseOrReset"
        \/ lastOp = "resumeOrRestart" /\ sinceOp = 0)
        => Abs(remaining - (duration - ranMs)) < MagicNumberValue(duration)

\* C27: in reset-restart mode, for a duration D > 0 that has not changed,
\* remaining is D once pauseOrReset has been called on an initialized timer,
\* whatever it was before, and the resumeOrRestart that follows it leaves a
\* running countdown of remaining = D that ends D later, to within one tick.
C27_ResetSetsFullDuration ==
    [][(/\ timerControls = "reset-restart"
        /\ initialized'
        /\ duration' > 0
        /\ ~durationChanged')
          => /\ lastOp' = "pauseOrReset" => remaining' = duration'
             /\ (lastOp = "pauseOrReset" /\ lastOp' = "resumeOrRestart")
                    => /\ remaining' = duration'
                       /\ CountdownRuns'
                       /\ Abs(TimeToEnd' - duration')
                              < MagicNumberValue(duration')]_vars

\* A countdown that had ticked down to half was reset by the pause and has
\* ticked down to half again after the resume.
C27_Witness ==
    /\ timerImpl = "interval"
    /\ timerControls = "reset-restart"
    /\ duration = 2 * MAGIC_NUMBER
    /\ lastOp = "resumeOrRestart"
    /\ ops = 3
    /\ sinceOp = MAGIC_NUMBER
    /\ ranMs = 2 * MAGIC_NUMBER
    /\ remaining = MAGIC_NUMBER
    /\ endCalls = 0

\* C28 as claimed: for a duration > 0, the remaining of the useTimer whose
\* tick is computed from the duration stays within 0..duration, under any
\* sequence of ticks, pauses, resumes and one change of duration.
C28_RemainingWithinBounds ==
    (timerImpl = "interval" /\ duration > 0)
        => (0 <= remaining /\ remaining <= duration)

\* C29 as claimed: for the interval timers, after one initialize() with a
\* duration that does not change, onEnd has been called once remaining is
\* <= 0, it is never called a second time, and once it has been called the
\* countdown does not run again, whatever pauseOrReset and resumeOrRestart
\* follow.
C29_EndsExactlyOnce ==
    (timerImpl \in {"interval", "fixedInterval"} /\ ~durationChanged)
        => /\ endCalls <= 1
           /\ (initialized /\ duration > 0 /\ remaining <= 0) => endCalls = 1
           /\ endCalls = 1 => ~CountdownRuns

\* C30: right after cleanup() of the timer, in whatever state it was called,
\* no interval runs and no timeout is pending, and while no further
\* operation is called onEnd is not called and remaining does not change;
\* right after cleanup() of the progress bar there is no animation, and none
\* appears while no further operation is called.  Neither throws.
C30_CleanupLeavesNothingPending ==
    [][/\ lastOp' = "cleanup" => (~CountdownRuns' /\ ~threw')
       /\ (lastOp = "cleanup" /\ lastOp' = "cleanup")
              => (endCalls' = endCalls /\ remaining' = remaining)
       /\ lastOp' = "progressBarCleanup" => (~animation'.defined /\ ~threw')
       /\ (lastOp = "progressBarCleanup" /\ lastOp' = "progressBarCleanup")
              => animation' = animation]_vars

\* A running countdown that had ticked once was cleaned up, and more than
\* what remained has passed since.
C30_Witness ==
    /\ timerImpl = "interval"
    /\ lastOp = "cleanup"
    /\ duration = 2 * MAGIC_NUMBER
    /\ remaining = MAGIC_NUMBER
    /\ ranMs = MAGIC_NUMBER
    /\ sinceOp = 2 * MAGIC_NUMBER
    /\ endCalls = 0

\* The step is a call of one of the timer's lifecycle operations.
LifecycleCall ==
    /\ ops' = ops + 1
    /\ lastOp' \in {"pauseOrReset", "resumeOrRestart", "cleanup"}

\* C31 as claimed: for the interval timer made by initialize() and the
\* timeout timer, a pauseOrReset, resumeOrRestart or cleanup called before
\* initialize(), or as the next operation after a cleanup(), does not throw,
\* leaves remaining as it was and leaves a countdown scheduled exactly if
\* one was.
C31_LifecycleNoOps ==
    [][(/\ timerImpl \in {"interval", "timeout"}
        /\ ~initialized \/ lastOp = "cleanup"
        /\ LifecycleCall)
          => /\ ~threw'
             /\ remaining' = remaining
             /\ CountdownRuns' = CountdownRuns]_vars

\* C32 as claimed: whenever the notification has been closed (mounted and no
\* longer visible), no auto-close timeout is pending and the progress
\* interval is not running.
C32_ClosedLeavesNothingScheduled ==
    (phase = "mounted" /\ ~visible) => (PendingTimeouts = 0 /\ ~interval.on)

\* C34 as claimed: at most one auto-close timeout is pending at any moment,
\* and right after the pointer entered the notification none is pending.
C34_SingleCountdown ==
    /\ PendingTimeouts <= 1
    /\ lastInput = "mouseenter" => PendingTimeouts = 0

\* C35 as claimed: a resumeOrRestart called while the countdown is running
\* leaves remaining as it was, leaves the countdown running and leaves the
\* time until it ends as it was.
C35_ResumeWhileRunningChangesNothing ==
    [][(/\ CountdownRuns
        /\ ops' = ops + 1
        /\ lastOp' = "resumeOrRestart")
          => /\ remaining' = remaining
             /\ CountdownRuns'
             /\ TimeToEnd' = TimeToEnd]_vars

\* The duration was changed to a value <= 0 while the countdown of an
\* interval timer was running, and no operation has been called since.
DurationInvalidatedWhileRunning ==
    /\ timerImpl \in {"interval", "fixedInterval"}
    /\ lastOp = "setDuration"
    /\ duration <= 0
    /\ CountdownRuns

\* C36 as claimed: once the duration has changed to a value <= 0 under a
\* running countdown, the passing of time does not call onEnd, and a
\* pauseOrReset leaves no countdown scheduled.
C36_InvalidDurationNeverCloses ==
    [][DurationInvalidatedWhileRunning
          => /\ endCalls' = endCalls
             /\ (ops' = ops + 1 /\ lastOp' = "pauseOrReset")
                   => ~CountdownRuns']_vars

\* C38 as claimed: for the timeout timer in pause-resume mode, initialized
\* with a duration D > 0 that has not changed since: whenever pauseOrReset
\* was the last operation called, it did not throw and no timeout is
\* pending, and for a host that has only paused the running countdown and
\* resumed it again, remaining is D minus the time the countdown has run.
C38_AnimationPauseNeverThrows ==
    (/\ timerImpl = "timeout"
     /\ timerControls = "pause-resume"
     /\ initialized
     /\ duration > 0
     /\ ~durationChanged
     /\ lastOp = "pauseOrReset")
        => /\ ~threw
           /\ ~timeout.pending
           /\ (cyclesOnly /\ ranMs < duration) => remaining = duration - ranMs

(* The lifecycle with every input: hovers, keys, the close icon, timers,  *)
(* a change of the duration, and an action that keeps the notification    *)
(* open until its promise has settled.                                    *)

InitLifecycle ==
    /\ InitActions
    /\ duration = 2 * Step
    /\ action = [impl |-> "makeActionButton", keepOpen |-> "until-resolved",
                 disableWhilePending |-> "absent"]

NextLifecycle ==
    \/ NextActions
    \/ microtasks = 0 /\ SetDuration

SpecLifecycle ==
    InitLifecycle
        /\ [][NextLifecycle /\ beforeLeave
                 /\ UNCHANGED <<regVars, pairVars, tmrVars>>]_vars

\* C37 as claimed: once the mounted notification is no longer visible, no
\* step makes it visible again: no hover, key, timer expiry, change of the
\* duration or settlement of an action.
C37_ClosedStaysClosed ==
    [][(phase = "mounted" /\ ~visible) => ~visible']_vars

\* Closed by Escape while the action was pending; the duration has changed
\* and the action has settled since, and the notification is still closed.
C37_Witness ==
    /\ phase = "mounted"
    /\ ~visible
    /\ closedBy = "Escape"
    /\ lastInput = "settle"
    /\ propChanges > 0
    /\ now > 0

\* Invocations of execute of action b that have not settled.
PendingExecutes(b) == pairButtons[b].suspended + replacedPending[b]

\* C33 as claimed: for an action that is disabled while pending, at most
\* one invocation of its execute is unsettled at any moment, also when the
\* action list has been evaluated again in between.
C33_RecomputeKeepsSingleInvocation ==
    \A b \in ButtonNames :
        disableWhilePending(pairActions[b]) => PendingExecutes(b) <= 1

====
